---------------------------- MODULE Spec2Model ----------------------------
(***************************************************************************)
(* Model of go/internal/accountutils/utils.go: the device push key file,   *)
(* the storage key of the native keystore, the root datastore's            *)
(* encryption-consistency check, the gorm database opener and the account  *)
(* metadata registry.                                                      *)
(*                                                                         *)
(* Each function of the package is a small state machine: one action per   *)
(* file-system, keystore or database call it makes, in program order, with *)
(* the outcome of that call (success or error) chosen by the environment.  *)
(* Each component has its own specification; the variables of the other    *)
(* components stay at their initial values.                                *)
(***************************************************************************)
EXTENDS Integers, Sequences, FiniteSets, TLC

VARIABLES
    keyDir,     \* push key: does path.Dir(filePath) exist
    keyFile,    \* push key: the file at filePath, [exists, data]
    pkProc,     \* push key: per caller, the position and locals of its call
    pkLog,      \* push key: the finished calls, oldest first
    ksWraps,    \* keystore: does the keystore transform the values it is given
    ksStore,    \* keystore: the entry under StorageKeyName, [present, val]
    ksProc,     \* keystore: per caller, the position and locals of its call
    ksLog,      \* keystore: the finished calls, oldest first
    dsDir,      \* datastore: does the directory dir exist
    dsFile,     \* datastore: dir/datastore.sqlite, [state, key]
    dsProc,     \* datastore: per caller, the position and locals of its call
    dsLog,      \* datastore: the finished calls, oldest first
    clock,      \* gorm: what time.Now().UnixNano() reads
    gormDBs,    \* gorm: the handles opened, oldest first, with their close state
    gormRows,   \* gorm: the rows of the databases, [conn, by]
    gormErr,    \* gorm: the error of the last GetGormDBForPath call
    accRoot,    \* accounts: rootDir, "absent" or "dir"
    accItems,   \* accounts: the items of rootDir in enumeration order
    accProc,    \* accounts: the position and locals of ListAccounts
    accList,    \* accounts: what the last ListAccounts returned
    accMeta     \* accounts: what the last direct GetAccountMetaForName returned

pkVars == <<keyDir, keyFile, pkProc, pkLog>>
ksVars == <<ksWraps, ksStore, ksProc, ksLog>>
dsVars == <<dsDir, dsFile, dsProc, dsLog>>
gormVars == <<clock, gormDBs, gormRows, gormErr>>
accVars == <<accRoot, accItems, accProc, accList, accMeta>>

vars == <<keyDir, keyFile, pkProc, pkLog, ksWraps, ksStore, ksProc, ksLog,
          dsDir, dsFile, dsProc, dsLog, clock, gormDBs, gormRows, gormErr,
          accRoot, accItems, accProc, accList, accMeta>>

\* What the actions of one component leave alone: the other components.
pkOthers == <<ksVars, dsVars, gormVars, accVars>>
ksOthers == <<pkVars, dsVars, gormVars, accVars>>
dsOthers == <<pkVars, ksVars, gormVars, accVars>>
gormOthers == <<pkVars, ksVars, dsVars, accVars>>
accOthers == <<pkVars, ksVars, dsVars, gormVars>>

-----------------------------------------------------------------------------
(* Bounds of the model *)

\* cryptoutil.KeySize is 32 in the program; the model keeps the layout
\* (public half, then secret half) with shorter keys.
KeySize == 2

\* Calls of one function observed in one behaviour.
MaxCalls == 3
KSMaxCalls == 2
DSMaxCalls == 2

\* Readings of the clock, handles opened and calls of one close function.
MaxClock == 2
MaxHandles == 2
MaxCloseCalls == 2

\* Items of the root directory of the accounts.
MaxItems == 3

Byte == {0, 1}

\* Callers of the sequential specifications.
SeqProcs == {1}

\* Callers of the concurrent specifications.
ConcProcs == {1, 2}

-----------------------------------------------------------------------------
(* Generic helpers *)

Prefix(s, n) == [i \in 1..n |-> s[i]]

Nil == <<>>

-----------------------------------------------------------------------------
(* GetDevicePushKeyForPath: utils.go lines 44-84 *)

NoFile == [exists |-> FALSE, data |-> <<>>]
FileOf(d) == [exists |-> TRUE, data |-> d]

\* A key half: [cryptoutil.KeySize]byte.
Keys == [1..KeySize -> Byte]

PKIdle == [pc |-> "idle", create |-> FALSE, contents |-> <<>>, pk |-> Nil,
           sk |-> Nil, before |-> NoFile, dirBefore |-> FALSE, wrote |-> FALSE,
           readErr |-> "nil"]

\* The results of a call: (pk, sk, err).  "panic" is the run-time panic of an
\* index out of range.
PKResult(pk, sk, err) == [pk |-> pk, sk |-> sk, err |-> err]

\* ioutil.ReadFile(filePath), line 45: the error class and the contents read.
\* A file that exists may still fail to be read (fault).
ReadFileOutcome(file, fault) ==
    IF ~file.exists THEN [err |-> "notexist", contents |-> <<>>]
    ELSE IF fault THEN [err |-> "other", contents |-> <<>>]
    ELSE [err |-> "nil", contents |-> file.data]

\* Faulty variants of line 46: the file is regenerated whenever creation is
\* allowed; the file is created whatever createIfMissing says.
PKShouldCreateAlways(readErr, createIfMissing) == createIfMissing

PKShouldCreateUnasked(readErr, createIfMissing) == readErr = "notexist"

\* Line 46: os.IsNotExist(err) && createIfMissing.
PKShouldCreate(readErr, createIfMissing) ==
    readErr = "notexist" /\ createIfMissing

\* Lines 56-60: contents[i] = pk[i]; contents[i+KeySize] = sk[i].
PKContents(pk, sk) ==
    [i \in 1..(2 * KeySize) |-> IF i <= KeySize THEN pk[i] ELSE sk[i - KeySize]]

\* Lines 75-83: pkVal[i] = contents[i]; skVal[i] = contents[i+KeySize].
\* contents shorter than 2*KeySize: the index is out of range and Go panics.
PKSplit(contents) ==
    IF Len(contents) < 2 * KeySize
    THEN PKResult(Nil, Nil, "panic")
    ELSE PKResult([i \in 1..KeySize |-> contents[i]],
                  [i \in 1..KeySize |-> contents[i + KeySize]], "nil")

\* The call of p returns ret: it is logged with what it found and left.
PKReturn(p, readErr, ret, file, dir, wrote) ==
    /\ pkLog' = Append(pkLog,
          [create |-> pkProc[p].create, before |-> pkProc[p].before,
           dirBefore |-> pkProc[p].dirBefore, after |-> file, dirAfter |-> dir,
           wrote |-> wrote, readErr |-> readErr, ret |-> ret])
    /\ pkProc' = [pkProc EXCEPT ![p] = PKIdle]

\* A caller enters GetDevicePushKeyForPath(filePath, createIfMissing).
PKCall(p, createIfMissing) ==
    /\ UNCHANGED pkOthers
    /\ pkProc[p].pc = "idle"
    /\ Len(pkLog) < MaxCalls
    /\ pkProc' = [pkProc EXCEPT ![p] =
          [PKIdle EXCEPT !.pc = "read", !.create = createIfMissing,
                         !.before = keyFile, !.dirBefore = keyDir]]
    /\ UNCHANGED <<keyDir, keyFile, pkLog>>

\* Lines 45-46 and 71-83: read the file, then create, fail or split.
PKReadFile(p) ==
    /\ UNCHANGED pkOthers
    /\ pkProc[p].pc = "read"
    /\ \E fault \in BOOLEAN :
         LET r == ReadFileOutcome(keyFile, fault) IN
         IF PKShouldCreate(r.err, pkProc[p].create)
         THEN /\ pkProc' = [pkProc EXCEPT ![p].pc = "mkdir", ![p].readErr = r.err]
              /\ UNCHANGED pkLog
         ELSE IF r.err # "nil"
         THEN PKReturn(p, r.err, PKResult(Nil, Nil, "ErrPushUnableToDecrypt"),
                       keyFile, keyDir, FALSE)
         ELSE PKReturn(p, r.err, PKSplit(r.contents), keyFile, keyDir, FALSE)
    /\ UNCHANGED <<keyDir, keyFile>>

\* Lines 47-49: os.MkdirAll(path.Dir(filePath), 0o700).
PKMkdirAll(p) ==
    /\ UNCHANGED pkOthers
    /\ pkProc[p].pc = "mkdir"
    /\ \/ /\ keyDir' = TRUE
          /\ pkProc' = [pkProc EXCEPT ![p].pc = "genkey"]
          /\ UNCHANGED <<keyFile, pkLog>>
       \/ /\ ~keyDir
          /\ PKReturn(p, pkProc[p].readErr, PKResult(Nil, Nil, "ErrInternal"), keyFile, keyDir, FALSE)
          /\ UNCHANGED <<keyDir, keyFile>>

\* Lines 51-60: box.GenerateKey(crand.Reader), then the contents to write.
PKGenerateKey(p) ==
    /\ UNCHANGED pkOthers
    /\ pkProc[p].pc = "genkey"
    /\ \/ \E pk \in Keys, sk \in Keys :
            /\ pkProc' = [pkProc EXCEPT ![p].pc = "create", ![p].pk = pk,
                             ![p].sk = sk, ![p].contents = PKContents(pk, sk)]
            /\ UNCHANGED pkLog
       \/ PKReturn(p, pkProc[p].readErr, PKResult(Nil, Nil, "ErrCryptoKeyGeneration"),
                   keyFile, keyDir, FALSE)
    /\ UNCHANGED <<keyDir, keyFile>>

\* Lines 62-64: os.Create(filePath) creates the file or truncates it.
PKCreate(p) ==
    /\ UNCHANGED pkOthers
    /\ pkProc[p].pc = "create"
    /\ \/ /\ keyFile' = FileOf(<<>>)
          /\ pkProc' = [pkProc EXCEPT ![p].pc = "write", ![p].wrote = TRUE]
          /\ UNCHANGED <<keyDir, pkLog>>
       \/ /\ PKReturn(p, pkProc[p].readErr, PKResult(Nil, Nil, "ErrInternal"), keyFile, keyDir,
                      pkProc[p].wrote)
          /\ UNCHANGED <<keyDir, keyFile>>

\* Lines 66-70: ioutil.WriteFile(filePath, contents, 0o600).  A failed write
\* leaves the file as it was (the open failed) or truncated with some prefix
\* of the contents in it.
PKWriteFile(p) ==
    /\ UNCHANGED pkOthers
    /\ pkProc[p].pc = "write"
    /\ \/ /\ keyFile' = FileOf(pkProc[p].contents)
          /\ PKReturn(p, pkProc[p].readErr, PKResult(pkProc[p].pk, pkProc[p].sk, "nil"),
                      keyFile', keyDir, TRUE)
       \/ /\ keyFile' = keyFile
          /\ PKReturn(p, pkProc[p].readErr, PKResult(Nil, Nil, "ErrInternal"), keyFile', keyDir, TRUE)
       \/ \E n \in 0..(2 * KeySize) :
            /\ keyFile' = FileOf(Prefix(pkProc[p].contents, n))
            /\ PKReturn(p, pkProc[p].readErr, PKResult(Nil, Nil, "ErrInternal"), keyFile', keyDir, TRUE)
    /\ UNCHANGED keyDir

PKStart ==
    /\ keyDir \in BOOLEAN
    /\ keyFile = NoFile
    /\ pkProc = [p \in SeqProcs |-> PKIdle]
    /\ pkLog = <<>>

PKStep ==
    \E p \in SeqProcs :
        \/ \E c \in BOOLEAN : PKCall(p, c)
        \/ PKReadFile(p)
        \/ PKMkdirAll(p)
        \/ PKGenerateKey(p)
        \/ PKCreate(p)
        \/ PKWriteFile(p)

\* Two callers in GetDevicePushKeyForPath(filePath, true) at once on a path
\* with no file: their file-system calls interleave in any order.  The
\* function takes no lock and the file system orders the calls.
PKCalls == Len(pkLog) + Cardinality({q \in DOMAIN pkProc : pkProc[q].pc # "idle"})

PKConcCall(p) ==
    /\ PKCalls < Cardinality(ConcProcs)
    /\ PKCall(p, TRUE)

PKConcStart ==
    /\ keyDir \in BOOLEAN
    /\ keyFile = NoFile
    /\ pkProc = [p \in ConcProcs |-> PKIdle]
    /\ pkLog = <<>>

PKConcStep ==
    \E p \in ConcProcs :
        \/ PKConcCall(p)
        \/ PKReadFile(p)
        \/ PKMkdirAll(p)
        \/ PKGenerateKey(p)
        \/ PKCreate(p)
        \/ PKWriteFile(p)

-----------------------------------------------------------------------------
(* GetOrCreateStorageKey: utils.go lines 120-139.  The keystore is the     *)
(* sysutil.NativeKeystore capability: Get(name) and Put(name, value), each *)
(* of which may fail; a keystore may transform the value it is given.      *)

NoEntry == [present |-> FALSE, val |-> Nil]
EntryOf(v) == [present |-> TRUE, val |-> v]

\* Errors are the lists multierr makes of them: nil is the empty list.
NoErr == <<>>
ErrOf(e) == <<e>>

\* errcode.X.Wrap(err): the error kind and the errors it carries.
Wrapped(kind, causes) == [kind |-> kind, causes |-> causes]
Ok == Wrapped("nil", NoErr)

\* What a transforming keystore stores for the value it is given.
KsTransform(v) == [i \in DOMAIN v |-> 1 - v[i]]

\* ks.Get(StorageKeyName): the entry, or an error when there is none or when
\* the keystore fails (fault).
KsGet(store, fault) ==
    IF fault THEN [val |-> Nil, err |-> ErrOf("get failed")]
    ELSE IF ~store.present THEN [val |-> Nil, err |-> ErrOf("no entry")]
    ELSE [val |-> store.val, err |-> NoErr]

\* ks.Put(StorageKeyName, keyData): the entry the keystore then holds.
KsPut(wraps, keyData) == EntryOf(IF wraps THEN KsTransform(keyData) ELSE keyData)

KSIdle == [pc |-> "idle", getErr |-> NoErr, key |-> Nil, keyData |-> Nil,
           before |-> NoEntry, get1 |-> [val |-> Nil, err |-> NoErr],
           generated |-> FALSE, puts |-> 0, second |-> NoErr,
           lastGet |-> Nil]

\* A variant of line 122 that regenerates the key on every call.
KSGetFailedAlways(getErr) == TRUE

\* Line 122: getErr != nil.
KSGetFailed(getErr) == getErr # NoErr

\* A variant of lines 129 and 134 that drops the first error.
KSCombineSecondOnly(getErr, err) == err

\* Lines 129 and 134: multierr.Append(getErr, err).
KSCombine(getErr, err) == getErr \o err

\* A variant of line 138 that returns the bytes generated at line 124.
KSReturnGenerated(key, keyData) == IF keyData # Nil THEN keyData ELSE key

\* Line 138: return key, nil.
KSReturnValue(key, keyData) == key

\* The call of p returns (key, err).
KSReturn(p, proc, key, err) ==
    /\ ksLog' = Append(ksLog,
          [before |-> proc.before, after |-> ksStore', get1 |-> proc.get1,
           generated |-> proc.generated, keyData |-> proc.keyData,
           puts |-> proc.puts, second |-> proc.second,
           lastGet |-> proc.lastGet, key |-> key, err |-> err])
    /\ ksProc' = [ksProc EXCEPT ![p] = KSIdle]

\* A caller enters GetOrCreateStorageKey(ks).
KSCall(p) ==
    /\ UNCHANGED ksOthers
    /\ ksProc[p].pc = "idle"
    /\ Len(ksLog) < KSMaxCalls
    /\ ksProc' = [ksProc EXCEPT ![p] = [KSIdle EXCEPT !.pc = "get", !.before = ksStore]]
    /\ UNCHANGED <<ksWraps, ksStore, ksLog>>

\* Lines 121-122 and 138: the first Get; its value is returned if it succeeds.
KSGet(p) ==
    /\ UNCHANGED <<ksWraps, ksStore>>
    /\ UNCHANGED ksOthers
    /\ ksProc[p].pc = "get"
    /\ \E fault \in BOOLEAN :
         LET r == KsGet(ksStore, fault)
             proc == [ksProc[p] EXCEPT !.get1 = r, !.getErr = r.err, !.key = r.val,
                         !.lastGet = IF r.err = NoErr THEN r.val ELSE @]
         IN IF KSGetFailed(r.err)
            THEN /\ ksProc' = [ksProc EXCEPT ![p] = [proc EXCEPT !.pc = "rand"]]
                 /\ UNCHANGED ksLog
            ELSE KSReturn(p, proc, KSReturnValue(proc.key, proc.keyData), Ok)

\* Lines 123-126: crand.Read(keyData).
KSRand(p) ==
    /\ UNCHANGED <<ksWraps, ksStore>>
    /\ UNCHANGED ksOthers
    /\ ksProc[p].pc = "rand"
    /\ \/ \E k \in Keys :
            /\ ksProc' = [ksProc EXCEPT ![p].pc = "put", ![p].keyData = k,
                             ![p].generated = TRUE]
            /\ UNCHANGED ksLog
       \/ KSReturn(p, ksProc[p], Nil,
                   Wrapped("ErrCryptoKeyGeneration", ErrOf("rand failed")))

\* Lines 128-130: ks.Put(StorageKeyName, keyData).
KSPut(p) ==
    /\ UNCHANGED ksOthers
    /\ ksProc[p].pc = "put"
    /\ \/ /\ ksStore' = KsPut(ksWraps, ksProc[p].keyData)
          /\ ksProc' = [ksProc EXCEPT ![p].pc = "reget", ![p].puts = @ + 1]
          /\ UNCHANGED ksLog
       \/ /\ ksStore' = ksStore
          /\ LET err == ErrOf("put failed") IN
             KSReturn(p, [ksProc[p] EXCEPT !.second = err], Nil,
                      Wrapped("ErrKeystoreGet", KSCombine(ksProc[p].getErr, err)))
    /\ UNCHANGED ksWraps

\* Lines 132-138: the re-fetch; its value is the one returned.
KSReget(p) ==
    /\ UNCHANGED <<ksWraps, ksStore>>
    /\ UNCHANGED ksOthers
    /\ ksProc[p].pc = "reget"
    /\ \E fault \in BOOLEAN :
         LET r == KsGet(ksStore, fault)
             proc == [ksProc[p] EXCEPT !.key = r.val, !.second = r.err,
                         !.lastGet = IF r.err = NoErr THEN r.val ELSE @]
         IN IF r.err # NoErr
            THEN KSReturn(p, proc, Nil,
                          Wrapped("ErrKeystorePut", KSCombine(proc.getErr, r.err)))
            ELSE KSReturn(p, proc, KSReturnValue(proc.key, proc.keyData), Ok)

KSStart ==
    /\ ksWraps \in BOOLEAN
    /\ ksStore = NoEntry
    /\ ksProc = [p \in SeqProcs |-> KSIdle]
    /\ ksLog = <<>>

KSStep ==
    \E p \in SeqProcs :
        \/ KSCall(p)
        \/ KSGet(p)
        \/ KSRand(p)
        \/ KSPut(p)
        \/ KSReget(p)

\* Concurrent callers of GetOrCreateStorageKey on one keystore that is empty
\* and stores what it is given: every caller calls once, and the steps of
\* the calls (each Get and each Put one step) interleave.
KSCalls == Len(ksLog) + Cardinality({q \in DOMAIN ksProc : ksProc[q].pc # "idle"})

KSConcCall(p) ==
    /\ KSCalls < Cardinality(ConcProcs)
    /\ KSCall(p)

KSConcStart ==
    /\ ksWraps = FALSE
    /\ ksStore = NoEntry
    /\ ksProc = [p \in ConcProcs |-> KSIdle]
    /\ ksLog = <<>>

KSConcStep ==
    \E p \in ConcProcs :
        \/ KSConcCall(p)
        \/ KSGet(p)
        \/ KSRand(p)
        \/ KSPut(p)
        \/ KSReget(p)

-----------------------------------------------------------------------------
(* GetRootDatastoreForPath: utils.go lines 187-250.  The database file is  *)
(* absent, a plaintext SQLite file or a SQLCipher file encrypted with a    *)
(* key; the driver creates the file at the first statement executed.       *)

DbAbsent == [state |-> "absent", key |-> Nil]
DbPlain == [state |-> "plaintext", key |-> Nil]
DbEncrypted(k) == [state |-> "encrypted", key |-> k]

\* The keys a caller passes: none, or one of two storage keys.
KeyA == [i \in 1..KeySize |-> 0]
KeyB == [i \in 1..KeySize |-> 1]
DSKeys == {Nil, KeyA, KeyB}

\* hex.EncodeToString(key), lines 216 and 275: two digits per byte.
HexEncode(key) ==
    [i \in 1..(2 * Len(key)) |->
        IF i % 2 = 1 THEN key[(i + 1) \div 2] \div 16 ELSE key[i \div 2] % 16]

\* The key the driver reads back from _pragma_key=x'..'.
HexDecode(h) == [i \in 1..(Len(h) \div 2) |-> 16 * h[2 * i - 1] + h[2 * i]]

\* Lines 216-217 and 222: the connection URL, the path alone or the path
\* with _pragma_key and _pragma_cipher_page_size.
DbURL(key) ==
    IF Len(key) # 0
    THEN [pragmaKey |-> HexEncode(key), cipherPageSize |-> 4096]
    ELSE [pragmaKey |-> <<>>, cipherPageSize |-> 0]

\* Lines 202-205: os.Stat(dbPath) returned no error.
StatOk(file, fault) == file.state # "absent" /\ ~fault

\* A variant of lines 206-209 in which a failed probe counts as encrypted.
ProbeEncryptedOnError(file, fault) ==
    IF file.state = "absent" THEN FALSE ELSE fault \/ file.state = "encrypted"

\* Lines 206-209: sqlite3.IsEncrypted(dbPath), an error counting as false.
\* The probe fails on a missing file and on a file it cannot read.
ProbeEncrypted(file, fault) ==
    IF file.state = "absent" \/ fault THEN FALSE ELSE file.state = "encrypted"

\* A variant of the consistency check that forgets hasDB.
DSMismatchNoHasDB(key, hasDB, hasEncryptedDB) ==
    IF Len(key) # 0 THEN ~hasEncryptedDB ELSE hasEncryptedDB

\* Lines 212-221: the consistency check; TRUE is ErrInvalidInput.
DSMismatch(key, hasDB, hasEncryptedDB) ==
    IF Len(key) # 0
    THEN hasDB /\ ~hasEncryptedDB
    ELSE hasDB /\ hasEncryptedDB

\* db.Exec(CREATE TABLE IF NOT EXISTS ...) on the file through the URL: the
\* driver creates a missing file, encrypted when the URL has a key, and
\* fails on a file that the URL's key does not open.
ExecOutcome(file, url) ==
    LET k == HexDecode(url.pragmaKey) IN
    IF file.state = "absent"
    THEN [ok |-> TRUE, file |-> IF k = Nil THEN DbPlain ELSE DbEncrypted(k)]
    ELSE IF file.key = k
    THEN [ok |-> TRUE, file |-> file]
    ELSE [ok |-> FALSE, file |-> file]

DSIdle == [pc |-> "idle", inMemory |-> FALSE, key |-> Nil, before |-> DbAbsent,
           statFault |-> FALSE, probeFault |-> FALSE, hasDB |-> FALSE,
           hasEncryptedDB |-> FALSE, checked |-> FALSE, url |-> DbURL(Nil),
           opened |-> FALSE, db |-> "none"]

\* The call of p returns (ds, err).
DSReturn(p, proc, ds, err) ==
    /\ dsLog' = Append(dsLog,
          [inMemory |-> proc.inMemory, key |-> proc.key, before |-> proc.before,
           after |-> dsFile', statFault |-> proc.statFault,
           probeFault |-> proc.probeFault, checked |-> proc.checked,
           opened |-> proc.opened, db |-> proc.db, ds |-> ds, err |-> err])
    /\ dsProc' = [dsProc EXCEPT ![p] = DSIdle]

\* A caller enters GetRootDatastoreForPath(dir, key, logger).
DSCall(p, inMemory, key) ==
    /\ UNCHANGED dsOthers
    /\ dsProc[p].pc = "idle"
    /\ Len(dsLog) < DSMaxCalls
    /\ dsProc' = [dsProc EXCEPT ![p] =
          [DSIdle EXCEPT !.pc = "start", !.inMemory = inMemory, !.key = key,
                         !.before = dsFile]]
    /\ UNCHANGED <<dsDir, dsFile, dsLog>>

\* Lines 188-192 and 247-249: dir == InMemoryDir, a map datastore.
DSMapDatastore(p) ==
    /\ UNCHANGED dsOthers
    /\ UNCHANGED <<dsDir, dsFile>>
    /\ dsProc[p].pc = "start"
    /\ dsProc[p].inMemory
    /\ DSReturn(p, dsProc[p], "map", "nil")

\* Lines 196-198: os.MkdirAll(dir, os.ModePerm).
DSMkdirAll(p) ==
    /\ UNCHANGED dsOthers
    /\ dsProc[p].pc = "start"
    /\ ~dsProc[p].inMemory
    /\ \/ /\ dsDir' = TRUE
          /\ dsProc' = [dsProc EXCEPT ![p].pc = "stat"]
          /\ UNCHANGED <<dsFile, dsLog>>
       \/ /\ ~dsDir
          /\ UNCHANGED <<dsDir, dsFile>>
          /\ DSReturn(p, dsProc[p], "none", "TODO")

\* Lines 202-205: os.Stat(dbPath).
DSStat(p) ==
    /\ UNCHANGED dsOthers
    /\ dsProc[p].pc = "stat"
    /\ \E fault \in BOOLEAN :
         /\ fault => dsFile.state # "absent"
         /\ dsProc' = [dsProc EXCEPT ![p].pc = "probe", ![p].statFault = fault,
                          ![p].hasDB = StatOk(dsFile, fault)]
    /\ UNCHANGED <<dsDir, dsFile, dsLog>>

\* Lines 206-209: sqlite3.IsEncrypted(dbPath).
DSProbe(p) ==
    /\ UNCHANGED dsOthers
    /\ dsProc[p].pc = "probe"
    /\ \E fault \in BOOLEAN :
         /\ fault => dsFile.state # "absent"
         /\ dsProc' = [dsProc EXCEPT ![p].pc = "check", ![p].probeFault = fault,
                          ![p].hasEncryptedDB = ProbeEncrypted(dsFile, fault)]
    /\ UNCHANGED <<dsDir, dsFile, dsLog>>

\* Lines 211-224: the consistency check and the URL.
DSCheck(p) ==
    /\ UNCHANGED dsOthers
    /\ UNCHANGED <<dsDir, dsFile>>
    /\ dsProc[p].pc = "check"
    /\ LET proc == [dsProc[p] EXCEPT !.checked = TRUE] IN
       IF DSMismatch(proc.key, proc.hasDB, proc.hasEncryptedDB)
       THEN DSReturn(p, proc, "none", "ErrInvalidInput")
       ELSE /\ dsProc' = [dsProc EXCEPT ![p] =
                   [proc EXCEPT !.pc = "open", !.url = DbURL(proc.key)]]
            /\ UNCHANGED dsLog

\* Lines 227-230: sql.Open("sqlite3", dbURL); the file is not touched yet.
DSOpen(p) ==
    /\ UNCHANGED dsOthers
    /\ UNCHANGED <<dsDir, dsFile>>
    /\ dsProc[p].pc = "open"
    /\ \/ /\ dsProc' = [dsProc EXCEPT ![p].pc = "exec", ![p].opened = TRUE,
                           ![p].db = "open"]
          /\ UNCHANGED dsLog
       \/ DSReturn(p, [dsProc[p] EXCEPT !.opened = TRUE], "none", "ErrDBOpen")

\* Lines 233-249: create the table, then wrap the datastore and return it.
\* When the statement fails the call returns without the handle.
DSExec(p) ==
    /\ UNCHANGED dsOthers
    /\ UNCHANGED dsDir
    /\ dsProc[p].pc = "exec"
    /\ LET r == ExecOutcome(dsFile, dsProc[p].url) IN
       \/ /\ r.ok
          /\ dsFile' = r.file
          /\ DSReturn(p, [dsProc[p] EXCEPT !.db = "returned"], "sql", "nil")
       \/ /\ dsFile' = dsFile
          /\ DSReturn(p, [dsProc[p] EXCEPT !.db = "leaked"], "none", "ErrDBWrite")

DSStart ==
    /\ dsFile \in {DbAbsent, DbPlain, DbEncrypted(KeyA)}
    /\ dsDir \in {dsFile.state # "absent", TRUE}
    /\ dsProc = [p \in SeqProcs |-> DSIdle]
    /\ dsLog = <<>>

DSStep ==
    \E p \in SeqProcs :
        \/ \E m \in BOOLEAN, k \in DSKeys : DSCall(p, m, k)
        \/ DSMapDatastore(p)
        \/ DSMkdirAll(p)
        \/ DSStat(p)
        \/ DSProbe(p)
        \/ DSCheck(p)
        \/ DSOpen(p)
        \/ DSExec(p)

\* Two concurrent callers of GetRootDatastoreForPath on one directory whose
\* database file is absent: caller 1 passes a key, caller 2 passes none, each
\* calls once, and the steps of the two calls interleave.
DSConcKey(p) == IF p = 1 THEN KeyA ELSE Nil

DSCalled(p) ==
    \/ dsProc[p].pc # "idle"
    \/ \E i \in 1..Len(dsLog) : dsLog[i].key = DSConcKey(p)

DSConcCall(p) ==
    /\ ~DSCalled(p)
    /\ DSCall(p, FALSE, DSConcKey(p))

DSConcStart ==
    /\ dsFile = DbAbsent
    /\ dsDir \in BOOLEAN
    /\ dsProc = [p \in ConcProcs |-> DSIdle]
    /\ dsLog = <<>>

DSConcStep ==
    \E p \in ConcProcs :
        \/ DSConcCall(p)
        \/ DSMkdirAll(p)
        \/ DSStat(p)
        \/ DSProbe(p)
        \/ DSCheck(p)
        \/ DSOpen(p)
        \/ DSExec(p)

-----------------------------------------------------------------------------
(* GetMessengerDBForPath, GetReplicationDBForPath and GetGormDBForPath:    *)
(* utils.go lines 252-295.                                                 *)

InMemoryDir == ":memory:"
MessengerDatabaseFilename == "messenger.sqlite"
ReplicationDatabaseFilename == "replication.sqlite"

\* Lines 253-255 and 261-263: the path of the database of a directory.
GormPath(dir, filename) == IF dir # InMemoryDir THEN filename ELSE dir

\* Lines 269-278: the connection string.  An in-memory database is named
\* after the clock reading, memdb%d with mode=memory and cache=shared: two
\* connections of the same name are connections to the same database.
SqliteConn(dbPath, key, now) ==
    IF dbPath = InMemoryDir
    THEN [memory |-> TRUE, name |-> <<"memdb", now>>, pragmaKey |-> <<>>]
    ELSE [memory |-> FALSE, name |-> <<dbPath, 0>>,
          pragmaKey |-> IF Len(key) # 0 THEN HexEncode(key) ELSE <<>>]

\* A variant of line 291 that closes without looking at the handle.
GormHasSqlDBUnchecked(avail) == TRUE

\* Lines 290-291: sqlDB, _ := db.DB(); sqlDB != nil.
GormHasSqlDB(avail) == avail

\* Line 292: sqlDB.Close().  database/sql's DB.Close releases the connections
\* of a DB that is not closed yet and returns at once on a closed one; on a
\* nil handle it is a nil dereference.
SqlDBClose(h) ==
    IF ~h.avail THEN [h EXCEPT !.panicked = TRUE]
    ELSE IF h.closed THEN h
    ELSE [h EXCEPT !.closed = TRUE, !.releases = @ + 1]

GormIdx == 1..Len(gormDBs)

\* The rows a handle sees: those of the database its connection names.
GormVisible(i) == {r \in gormRows : r.conn = gormDBs[i].conn}

\* time.Now().UnixNano() moves on between two readings, or does not.
Tick ==
    /\ UNCHANGED gormOthers
    /\ clock < MaxClock
    /\ clock' = clock + 1
    /\ UNCHANGED <<gormDBs, gormRows, gormErr>>

\* Lines 268-295, called directly or through GetMessengerDBForPath (the
\* messenger file, with the key) or GetReplicationDBForPath (the replication
\* file, no key): gorm.Open fails, or the handle and its close function are
\* returned.  avail: db.DB() of the handle yields its *sql.DB.
GormOpen(dir, filename, key) ==
    /\ UNCHANGED gormOthers
    /\ Len(gormDBs) < MaxHandles
    /\ UNCHANGED <<clock, gormRows>>
    /\ \/ /\ gormErr' = "TODO"
          /\ UNCHANGED gormDBs
       \/ \E avail \in BOOLEAN :
            /\ gormErr' = "nil"
            /\ gormDBs' = Append(gormDBs,
                  [conn |-> SqliteConn(GormPath(dir, filename), key, clock),
                   avail |-> avail, closed |-> FALSE, releases |-> 0,
                   closeCalls |-> 0, panicked |-> FALSE])

\* A statement through an open handle writes a row of its database.
GormInsert(i) ==
    /\ UNCHANGED gormOthers
    /\ gormDBs[i].avail /\ ~gormDBs[i].closed
    /\ gormRows' = gormRows \cup {[conn |-> gormDBs[i].conn, by |-> i]}
    /\ UNCHANGED <<clock, gormDBs, gormErr>>

\* Lines 289-294: the close function of handle i is called.  An in-memory
\* database goes away with its last connection.
GormClose(i) ==
    /\ UNCHANGED gormOthers
    /\ gormDBs[i].closeCalls < MaxCloseCalls
    /\ ~gormDBs[i].panicked
    /\ LET h == [gormDBs[i] EXCEPT !.closeCalls = @ + 1]
           after == IF GormHasSqlDB(h.avail) THEN SqlDBClose(h) ELSE h
           others == {j \in GormIdx \ {i} :
                        /\ gormDBs[j].conn = h.conn
                        /\ gormDBs[j].avail /\ ~gormDBs[j].closed}
       IN /\ gormDBs' = [gormDBs EXCEPT ![i] = after]
          /\ gormRows' = IF after.closed /\ h.conn.memory /\ others = {}
                         THEN {r \in gormRows : r.conn # h.conn}
                         ELSE gormRows
    /\ UNCHANGED <<clock, gormErr>>

GormStart ==
    /\ clock = 0
    /\ gormDBs = <<>>
    /\ gormRows = {}
    /\ gormErr = "none"

GormStep ==
    \/ Tick
    \/ \E key \in DSKeys : GormOpen(InMemoryDir, InMemoryDir, key)
    \/ \E key \in DSKeys : GormOpen("dir", MessengerDatabaseFilename, key)
    \/ GormOpen("dir", ReplicationDatabaseFilename, Nil)
    \/ \E i \in GormIdx : GormInsert(i)
    \/ \E i \in GormIdx : GormClose(i)

-----------------------------------------------------------------------------
(* ListAccounts and GetAccountMetaForName: utils.go lines 86-118 and       *)
(* 141-164.  The root directory holds up to MaxItems items; item i has the *)
(* i-th name in the order ioutil.ReadDir returns them.  This layer only    *)
(* reads the directory.                                                    *)

ItemName(i) == <<"account", i>>
StaleName == <<"stale", 0>>

\* The account_meta file of a directory: none, one that cannot be read, or
\* its bytes: malformed, or the encoding of a record with an AccountID.
NoMeta == [state |-> "absent", id |-> StaleName, name |-> ""]
MetaFiles(i) ==
    {NoMeta, [NoMeta EXCEPT !.state = "unreadable"],
     [NoMeta EXCEPT !.state = "corrupt"]}
    \cup {[state |-> "valid", id |-> id, name |-> "display"] :
             id \in {StaleName, ItemName(i)}}

\* An item of the root: nothing by this name, a plain file, or a directory.
NoItem == [kind |-> "none", meta |-> NoMeta]
Items(i) ==
    {NoItem, [NoItem EXCEPT !.kind = "file"]}
    \cup {[kind |-> "dir", meta |-> m] : m \in MetaFiles(i)}

ItemIdx == 1..MaxItems

\* accounttypes.AccountMetadata.
AccountMetadata(id, name, error) == [AccountID |-> id, Name |-> name, Error |-> error]
NoAccount == AccountMetadata(StaleName, "", "")

\* Line 148: ioutil.ReadFile(rootDir/accountID/account_meta).
ReadMetaErr(item) ==
    IF item.kind = "none" THEN "notexist"
    ELSE IF item.kind = "file" THEN "other"
    ELSE IF item.meta.state = "absent" THEN "notexist"
    ELSE IF item.meta.state = "unreadable" THEN "other"
    ELSE "nil"

\* Lines 156-159: proto.Unmarshal(metaBytes, meta).
ProtoUnmarshal(bytes) ==
    IF bytes.state = "corrupt"
    THEN [err |-> "ErrDeserialization", meta |-> NoAccount]
    ELSE [err |-> "nil", meta |-> AccountMetadata(bytes.id, bytes.name, "")]

\* A variant of line 161 that keeps the AccountID decoded from the file.
AccSetAccountIDKept(meta, accountID) == meta

\* Line 161: meta.AccountID = accountID.
AccSetAccountID(meta, accountID) == [meta EXCEPT !.AccountID = accountID]

\* Lines 141-164: GetAccountMetaForName(rootDir, accountID, logger) on the
\* item of that name; ok is FALSE when no record is returned.
GetAccountMetaForName(item, accountID) ==
    LET readErr == ReadMetaErr(item) IN
    IF readErr = "notexist"
    THEN [ok |-> FALSE, meta |-> NoAccount, err |-> "ErrBertyAccountDataNotFound"]
    ELSE IF readErr # "nil"
    THEN [ok |-> FALSE, meta |-> NoAccount, err |-> "ErrBertyAccountFSError"]
    ELSE LET u == ProtoUnmarshal(item.meta) IN
         IF u.err # "nil"
         THEN [ok |-> FALSE, meta |-> NoAccount, err |-> u.err]
         ELSE [ok |-> TRUE, meta |-> AccSetAccountID(u.meta, accountID), err |-> "nil"]

\* A variant of lines 110-114 that leaves out the accounts that fail to load.
AccAppendLoadedOnly(accounts, accountID, r) ==
    IF r.err # "nil" THEN accounts ELSE Append(accounts, r.meta)

\* Lines 110-114: the record loaded, or a placeholder with the error.
AccAppend(accounts, accountID, r) ==
    IF r.err # "nil"
    THEN Append(accounts, AccountMetadata(accountID, "", r.err))
    ELSE Append(accounts, r.meta)

\* Line 97: ioutil.ReadDir(rootDir), the items that exist, in order.
ReadDir(items) == SelectSeq([i \in ItemIdx |-> i], LAMBDA i : items[i].kind # "none")

AccIdle == [pc |-> "idle", subitems |-> <<>>, next |-> 1, accounts |-> <<>>]
NoList == [done |-> FALSE, accounts |-> <<>>, err |-> "nil", fsFault |-> FALSE]

\* ListAccounts returns (accounts, err); fsFault: Stat or ReadDir of the
\* root failed.
AccListReturn(accounts, err, fsFault) ==
    /\ accList' = [done |-> TRUE, accounts |-> accounts, err |-> err,
                   fsFault |-> fsFault]
    /\ accProc' = AccIdle

\* A variant of line 91 that does not tell a missing root from an error.
StatNotExistNever(root) == FALSE

\* Line 91: os.IsNotExist(err) of os.Stat(rootDir).
StatNotExist(root) == root = "absent"

\* A caller enters ListAccounts(rootDir, logger).
AccListCall ==
    /\ UNCHANGED accOthers
    /\ accProc.pc = "idle"
    /\ ~accList.done
    /\ accProc' = [AccIdle EXCEPT !.pc = "stat"]
    /\ UNCHANGED <<accRoot, accItems, accList, accMeta>>

\* Lines 91-95: os.Stat(rootDir): no such directory, another error, or
\* the directory is there.
AccStat ==
    /\ UNCHANGED accOthers
    /\ UNCHANGED <<accRoot, accItems, accMeta>>
    /\ accProc.pc = "stat"
    /\ \/ /\ StatNotExist(accRoot)
          /\ AccListReturn(<<>>, "nil", FALSE)
       \/ /\ ~StatNotExist(accRoot)
          /\ AccListReturn(<<>>, "ErrBertyAccountFSError", TRUE)
       \/ /\ ~StatNotExist(accRoot)
          /\ accProc' = [accProc EXCEPT !.pc = "readdir"]
          /\ UNCHANGED accList

\* Lines 97-102: ioutil.ReadDir(rootDir) fails, or lists the directory.
AccReadDir ==
    /\ UNCHANGED accOthers
    /\ UNCHANGED <<accRoot, accItems, accMeta>>
    /\ accProc.pc = "readdir"
    /\ \/ AccListReturn(<<>>, "ErrBertyAccountFSError", TRUE)
       \/ /\ accProc' = [accProc EXCEPT !.pc = "loop", !.subitems = ReadDir(accItems)]
          /\ UNCHANGED accList

\* Lines 104-115: one turn of the loop over the subitems.
AccLoop ==
    /\ UNCHANGED accOthers
    /\ UNCHANGED <<accRoot, accItems, accMeta, accList>>
    /\ accProc.pc = "loop"
    /\ accProc.next <= Len(accProc.subitems)
    /\ LET i == accProc.subitems[accProc.next] IN
       IF accItems[i].kind # "dir"
       THEN accProc' = [accProc EXCEPT !.next = @ + 1]
       ELSE accProc' = [accProc EXCEPT !.next = @ + 1,
               !.accounts = AccAppend(@, ItemName(i),
                               GetAccountMetaForName(accItems[i], ItemName(i)))]

\* Line 117: return accounts, nil.
AccListDone ==
    /\ UNCHANGED accOthers
    /\ UNCHANGED <<accRoot, accItems, accMeta>>
    /\ accProc.pc = "loop"
    /\ accProc.next > Len(accProc.subitems)
    /\ AccListReturn(accProc.accounts, "nil", FALSE)

\* A caller calls GetAccountMetaForName(rootDir, accountID, logger) itself.
AccGetMeta(i) ==
    /\ UNCHANGED accOthers
    /\ accRoot # "absent"
    /\ accMeta' = [called |-> TRUE, accountID |-> ItemName(i),
                   r |-> GetAccountMetaForName(accItems[i], ItemName(i))]
    /\ UNCHANGED <<accRoot, accItems, accProc, accList>>

NoMetaCall == [called |-> FALSE, accountID |-> StaleName,
               r |-> [ok |-> FALSE, meta |-> NoAccount, err |-> "nil"]]

AccStart ==
    /\ accRoot \in {"absent", "dir"}
    /\ accItems \in [ItemIdx -> UNION {Items(i) : i \in ItemIdx}]
    /\ \A i \in ItemIdx : accItems[i] \in Items(i)
    /\ accRoot = "absent" => \A i \in ItemIdx : accItems[i] = NoItem
    /\ accProc = AccIdle
    /\ accList = NoList
    /\ accMeta = NoMetaCall

AccStep ==
    \/ AccListCall
    \/ AccStat
    \/ AccReadDir
    \/ AccLoop
    \/ AccListDone
    \/ \E i \in ItemIdx : AccGetMeta(i)

-----------------------------------------------------------------------------
(* The specifications: one per component, the other components at rest.    *)

PKRest == keyDir = FALSE /\ keyFile = NoFile
            /\ pkProc = [p \in SeqProcs |-> PKIdle] /\ pkLog = <<>>
KSRest == ksWraps = FALSE /\ ksStore = NoEntry
            /\ ksProc = [p \in SeqProcs |-> KSIdle] /\ ksLog = <<>>

DSRest == dsDir = FALSE /\ dsFile = DbAbsent
            /\ dsProc = [p \in SeqProcs |-> DSIdle] /\ dsLog = <<>>

GormRest == clock = 0 /\ gormDBs = <<>> /\ gormRows = {} /\ gormErr = "none"

AccRest == accRoot = "absent" /\ accItems = [i \in ItemIdx |-> NoItem]
            /\ accProc = AccIdle /\ accList = NoList /\ accMeta = NoMetaCall

PKInit == PKStart /\ KSRest /\ DSRest /\ GormRest /\ AccRest
PKNext == PKStep
SpecPushKey == PKInit /\ [][PKNext]_vars

PKConcInit == PKConcStart /\ KSRest /\ DSRest /\ GormRest /\ AccRest
PKConcNext == PKConcStep
SpecPushKeyConc == PKConcInit /\ [][PKConcNext]_vars

KSInit == KSStart /\ PKRest /\ DSRest /\ GormRest /\ AccRest
KSNext == KSStep
SpecKeystore == KSInit /\ [][KSNext]_vars

KSConcInit == KSConcStart /\ PKRest /\ DSRest /\ GormRest /\ AccRest
KSConcNext == KSConcStep
SpecKeystoreConc == KSConcInit /\ [][KSConcNext]_vars

DSInit == DSStart /\ PKRest /\ KSRest /\ GormRest /\ AccRest
DSNext == DSStep
SpecDatastore == DSInit /\ [][DSNext]_vars

DSConcInit == DSConcStart /\ PKRest /\ KSRest /\ GormRest /\ AccRest
DSConcNext == DSConcStep
SpecDatastoreConc == DSConcInit /\ [][DSConcNext]_vars

GormInit == GormStart /\ PKRest /\ KSRest /\ DSRest /\ AccRest
GormNext == GormStep
SpecGorm == GormInit /\ [][GormNext]_vars

AccInit == AccStart /\ PKRest /\ KSRest /\ DSRest /\ GormRest
AccNext == AccStep
SpecAccounts == AccInit /\ [][AccNext]_vars

-----------------------------------------------------------------------------
(* Claims about GetDevicePushKeyForPath, checked under SpecPushKey, where  *)
(* the calls follow one another.                                           *)

PKLogIdx == 1..Len(pkLog)

\* A call that found no file, was allowed to create it and succeeded.
PKCreated(i) ==
    /\ pkLog[i].create
    /\ ~pkLog[i].before.exists
    /\ pkLog[i].ret.err = "nil"

\* C2: calling GetDevicePushKeyForPath(path, true) again after a call that
\* created the key file of an absent path returns the same (pk, sk) pair as
\* that call whenever the file can be read, and the later call only reads:
\* it neither creates nor writes the file and leaves its contents unchanged.
C2_KeyIdempotent ==
    \A i \in PKLogIdx : \A j \in PKLogIdx :
        (i < j /\ PKCreated(i) /\ pkLog[j].create) =>
            /\ ~pkLog[j].wrote
            /\ pkLog[j].after = pkLog[j].before
            /\ pkLog[j].before = pkLog[i].after
            /\ pkLog[j].readErr = "nil" =>
                  /\ pkLog[j].ret.err = "nil"
                  /\ pkLog[j].ret.pk = pkLog[i].ret.pk
                  /\ pkLog[j].ret.sk = pkLog[i].ret.sk
            /\ pkLog[j].ret.err = "nil" => pkLog[j].readErr = "nil"

\* Two calls with createIfMissing = TRUE on an absent path, both returning a
\* key, and a third call after them.
C2_Witness ==
    /\ Len(pkLog) >= 3
    /\ PKCreated(1)
    /\ pkLog[1].wrote
    /\ pkLog[2].create /\ pkLog[2].ret.err = "nil"
    /\ pkLog[2].ret.pk = pkLog[1].ret.pk
    /\ pkLog[2].ret.pk # pkLog[2].ret.sk
    /\ pkLog[3].create /\ pkLog[3].ret.err = "nil"

\* A call with createIfMissing = FALSE that found no file.
PKMissingNoCreate(i) == ~pkLog[i].create /\ ~pkLog[i].before.exists

\* C4 as stated: GetDevicePushKeyForPath(path, false) on a path with no file
\* fails with the NotFound error kind, returns no key and creates neither
\* the file nor its parent directory.
C4_AsStated ==
    \A i \in PKLogIdx :
        PKMissingNoCreate(i) =>
            /\ pkLog[i].ret.err = "ErrNotFound"
            /\ pkLog[i].ret.pk = Nil /\ pkLog[i].ret.sk = Nil
            /\ pkLog[i].after = pkLog[i].before
            /\ pkLog[i].dirAfter = pkLog[i].dirBefore

\* C4 amended: the call fails with ErrPushUnableToDecrypt, the kind returned
\* for every failed read of the key file; it returns no key and creates
\* neither the file nor its parent directory.
C4_MissingNoCreate ==
    \A i \in PKLogIdx :
        PKMissingNoCreate(i) =>
            /\ pkLog[i].ret.err = "ErrPushUnableToDecrypt"
            /\ pkLog[i].ret.pk = Nil /\ pkLog[i].ret.sk = Nil
            /\ ~pkLog[i].wrote
            /\ pkLog[i].after = pkLog[i].before
            /\ pkLog[i].dirAfter = pkLog[i].dirBefore

\* A call with createIfMissing = FALSE has returned where neither the file
\* nor its directory existed.
C4_Witness ==
    \E i \in PKLogIdx :
        /\ PKMissingNoCreate(i)
        /\ ~pkLog[i].dirBefore
        /\ pkLog[i].ret.err # "nil"

-----------------------------------------------------------------------------
(* Claims about GetOrCreateStorageKey, checked under SpecKeystore.         *)

KSLogIdx == 1..Len(ksLog)

\* C3: whenever GetOrCreateStorageKey returns successfully, the bytes it
\* returns are the value of a successful Get of the "storage" entry (the
\* first Get, or the re-fetch made after Put), which is what the keystore
\* holds; when the keystore transforms the value it is given, the returned
\* key is the transformed value and not the generated bytes.
C3_ReturnsFetchedKey ==
    \A i \in KSLogIdx :
        ksLog[i].err = Ok =>
            /\ ksLog[i].after.present
            /\ ksLog[i].key = ksLog[i].after.val
            /\ ksLog[i].key = ksLog[i].lastGet
            /\ (ksLog[i].generated /\ ksWraps) =>
                  /\ ksLog[i].key = KsTransform(ksLog[i].keyData)
                  /\ ksLog[i].key # ksLog[i].keyData

\* A successful call that generated a key and put it in a keystore that
\* transforms its values.
C3_Witness ==
    \E i \in KSLogIdx :
        /\ ksLog[i].err = Ok
        /\ ksLog[i].generated
        /\ ksLog[i].puts = 1
        /\ ksWraps
        /\ ksLog[i].key # ksLog[i].keyData

\* The first Get of call i failed and then its Put or its re-fetch failed.
KSSecondFailed(i) ==
    /\ ksLog[i].get1.err # NoErr
    /\ ksLog[i].generated
    /\ ksLog[i].second # NoErr

\* C8: whenever the initial Get fails and then the Put or the re-fetch
\* fails, the call returns no key and one keystore-access error (kind
\* ErrKeystoreGet or ErrKeystorePut) that carries the original Get error and
\* the second error.
C8_CombinedError ==
    \A i \in KSLogIdx :
        KSSecondFailed(i) =>
            /\ ksLog[i].key = Nil
            /\ ksLog[i].err.kind \in {"ErrKeystoreGet", "ErrKeystorePut"}
            /\ ksLog[i].err.causes = ksLog[i].get1.err \o ksLog[i].second
            /\ Len(ksLog[i].err.causes) = 2

\* Both cases have happened: a failed Put, and a failed re-fetch after a Put.
C8_Witness ==
    /\ \E i \in KSLogIdx : KSSecondFailed(i) /\ ksLog[i].puts = 0
    /\ \E i \in KSLogIdx : KSSecondFailed(i) /\ ksLog[i].puts = 1

\* C9: when the first Get succeeds, the call returns exactly that value,
\* generates no key, performs no Put and leaves the keystore unchanged.
C9_FirstGetReturned ==
    \A i \in KSLogIdx :
        ksLog[i].get1.err = NoErr =>
            /\ ksLog[i].err = Ok
            /\ ksLog[i].key = ksLog[i].get1.val
            /\ ksLog[i].key = ksLog[i].before.val
            /\ ~ksLog[i].generated
            /\ ksLog[i].puts = 0
            /\ ksLog[i].after = ksLog[i].before

\* A call whose first Get succeeded has returned.
C9_Witness ==
    \E i \in KSLogIdx :
        /\ ksLog[i].get1.err = NoErr
        /\ ksLog[i].before.present
        /\ ksLog[i].key # Nil

-----------------------------------------------------------------------------
(* Claims about GetRootDatastoreForPath, checked under SpecDatastore.      *)

DSLogIdx == 1..Len(dsLog)

\* A call on a real directory that got past MkdirAll.
DSOnDisk(i) == ~dsLog[i].inMemory /\ dsLog[i].checked

\* C1 as stated: on a real directory, over the on-disk state of
\* datastore.sqlite (absent, plaintext, encrypted) and the key (empty or
\* not), the call fails with ErrInvalidInput exactly when the file is
\* encrypted and the key empty, or the file is plaintext and the key not
\* empty; otherwise it goes on to open the store.
C1_AsStated ==
    \A i \in DSLogIdx :
        DSOnDisk(i) =>
            /\ dsLog[i].err = "ErrInvalidInput" <=>
                  \/ dsLog[i].before.state = "encrypted" /\ dsLog[i].key = Nil
                  \/ dsLog[i].before.state = "plaintext" /\ dsLog[i].key # Nil
            /\ dsLog[i].err # "ErrInvalidInput" => dsLog[i].opened

\* What the two probes report of the file the call found.
DSSeenDB(i) == dsLog[i].before.state # "absent" /\ ~dsLog[i].statFault
DSSeenEncrypted(i) ==
    dsLog[i].before.state = "encrypted" /\ ~dsLog[i].probeFault

\* C1 amended: the same, with the state of the file taken as the probes
\* report it: a file whose Stat fails counts as absent, and a file whose
\* encryption probe fails counts as not encrypted.
C1_EncryptionConsistency ==
    \A i \in DSLogIdx :
        DSOnDisk(i) =>
            /\ dsLog[i].err = "ErrInvalidInput" <=>
                  \/ DSSeenDB(i) /\ DSSeenEncrypted(i) /\ dsLog[i].key = Nil
                  \/ DSSeenDB(i) /\ ~DSSeenEncrypted(i) /\ dsLog[i].key # Nil
            /\ dsLog[i].err = "ErrInvalidInput" =>
                  ~dsLog[i].opened /\ dsLog[i].after = dsLog[i].before
            /\ dsLog[i].err # "ErrInvalidInput" => dsLog[i].opened

\* With neither probe failing, a call without a key was refused on an
\* encrypted file and a call with the file's key then opened the store.
C1_Witness ==
    /\ Len(dsLog) >= 2
    /\ \A i \in {1, 2} :
          DSOnDisk(i) /\ ~dsLog[i].statFault /\ ~dsLog[i].probeFault
            /\ dsLog[i].before.state = "encrypted"
    /\ dsLog[1].key = Nil /\ dsLog[1].err = "ErrInvalidInput"
    /\ dsLog[2].key # Nil /\ dsLog[2].err = "nil" /\ dsLog[2].ds = "sql"

-----------------------------------------------------------------------------
(* Claims about GetGormDBForPath, checked under SpecGorm.                  *)

\* C7: any two in-memory opens of one process receive distinct connection
\* identifiers and never share data: what one handle sees was written
\* through it.
C7_InMemoryIsolation ==
    \A i \in GormIdx : \A j \in GormIdx :
        (i # j /\ gormDBs[i].conn.memory /\ gormDBs[j].conn.memory) =>
            /\ gormDBs[i].conn.name # gormDBs[j].conn.name
            /\ \A r \in GormVisible(i) : r.by = i

\* C10: the close function releases the underlying connection exactly once
\* however many times it is called, and does nothing, without failing, when
\* the handle has no *sql.DB.
C10_CloseOnce ==
    \A i \in GormIdx :
        /\ ~gormDBs[i].panicked
        /\ (gormDBs[i].avail /\ gormDBs[i].closeCalls >= 1) =>
              gormDBs[i].closed /\ gormDBs[i].releases = 1
        /\ gormDBs[i].closeCalls = 0 => gormDBs[i].releases = 0
        /\ ~gormDBs[i].avail => ~gormDBs[i].closed /\ gormDBs[i].releases = 0

\* One close function was called twice on a handle with a *sql.DB, another
\* once on a handle without.
C10_Witness ==
    /\ \E i \in GormIdx :
          gormDBs[i].avail /\ gormDBs[i].closeCalls >= 2 /\ gormDBs[i].releases = 1
    /\ \E i \in GormIdx : ~gormDBs[i].avail /\ gormDBs[i].closeCalls >= 1

-----------------------------------------------------------------------------
(* Claims about ListAccounts and GetAccountMetaForName, checked under      *)
(* SpecAccounts.                                                           *)

\* The subdirectories of the root, in enumeration order.
AccDirs == SelectSeq([i \in ItemIdx |-> i], LAMBDA i : accItems[i].kind = "dir")

\* ListAccounts has returned from a root that exists and could be listed.
AccListed == accList.done /\ accRoot = "dir" /\ ~accList.fsFault

C6_AccountIDIsDirName ==
    /\ (accMeta.called /\ accMeta.r.ok) =>
          accMeta.r.meta.AccountID = accMeta.accountID
    /\ accList.done =>
          \A k \in 1..Len(accList.accounts) :
              /\ k <= Len(AccDirs)
              /\ accList.accounts[k].AccountID = ItemName(AccDirs[k])

\* Records were returned, by the listing and by a direct call, for a
\* directory whose file encodes another AccountID, and the listing also has
\* a placeholder of a failed load.
C6_Witness ==
    /\ accMeta.called /\ accMeta.r.ok
    /\ \E i \in ItemIdx :
          /\ accMeta.accountID = ItemName(i)
          /\ accItems[i].meta.state = "valid"
          /\ accItems[i].meta.id = StaleName
    /\ accList.done
    /\ \E k \in 1..Len(accList.accounts) :
          /\ accList.accounts[k].Error = ""
          /\ accItems[AccDirs[k]].meta.id = StaleName
    /\ \E k \in 1..Len(accList.accounts) : accList.accounts[k].Error # ""

\* C11: ListAccounts on a root directory that does not exist returns an
\* empty sequence and no error, and no step of it creates anything on disk.
C11_MissingRoot ==
    /\ [](accList.done /\ accRoot = "absent" =>
            /\ accList.accounts = <<>>
            /\ accList.err = "nil"
            /\ \A i \in ItemIdx : accItems[i] = NoItem)
    /\ [][accRoot' = accRoot /\ accItems' = accItems]_vars

\* ListAccounts has returned from a root that does not exist.
C11_Witness ==
    /\ accList.done
    /\ accRoot = "absent"
    /\ accList.accounts = <<>>
    /\ accProc.pc = "idle"

-----------------------------------------------------------------------------
(* Claims about concurrent GetDevicePushKeyForPath calls, checked under    *)
(* SpecPushKeyConc.                                                        *)

PKAllReturned ==
    /\ Len(pkLog) = Cardinality(ConcProcs)
    /\ \A q \in DOMAIN pkProc : pkProc[q].pc = "idle"

\* C12: for every interleaving of two concurrent calls with createIfMissing
\* = TRUE on an absent path, every call that succeeds returns the same key
\* pair, and that pair is the contents of the key file once both calls have
\* finished.
C12_ConcurrentInit ==
    /\ \A i \in PKLogIdx : \A j \in PKLogIdx :
          (pkLog[i].ret.err = "nil" /\ pkLog[j].ret.err = "nil") =>
              /\ pkLog[i].ret.pk = pkLog[j].ret.pk
              /\ pkLog[i].ret.sk = pkLog[j].ret.sk
    /\ PKAllReturned =>
          \A i \in PKLogIdx :
              pkLog[i].ret.err = "nil" =>
                  keyFile = FileOf(PKContents(pkLog[i].ret.pk, pkLog[i].ret.sk))

-----------------------------------------------------------------------------
(* Further claims about GetDevicePushKeyForPath, checked under SpecPushKey, *)
(* and about GetOrCreateStorageKey, checked under SpecKeystore.            *)

\* The key file holds the whole blob, public half then secret half.
PKComplete(file) == file.exists /\ Len(file.data) = 2 * KeySize

\* C13: the key file either does not exist or contains the complete
\* 2*KeySize blob, also after a failed file creation or a failed write: a
\* call that failed leaves no empty or partial key file behind.  Stated of
\* the states in which no call is in progress.
C13_NoPartialFile ==
    (\A q \in DOMAIN pkProc : pkProc[q].pc = "idle") =>
        /\ ~keyFile.exists \/ PKComplete(keyFile)
        /\ \A i \in PKLogIdx :
              pkLog[i].ret.err # "nil" =>
                  ~pkLog[i].after.exists \/ PKComplete(pkLog[i].after)

\* C15: a call that finds an existing key file shorter than 2*KeySize bytes
\* (an empty file included) returns a read error and no key, does not crash,
\* and leaves the file unchanged, whatever createIfMissing is.
C15_ShortFileIsReadError ==
    \A i \in PKLogIdx :
        (pkLog[i].before.exists /\ Len(pkLog[i].before.data) < 2 * KeySize) =>
            /\ pkLog[i].ret.err = "ErrPushUnableToDecrypt"
            /\ pkLog[i].ret.pk = Nil /\ pkLog[i].ret.sk = Nil
            /\ pkLog[i].after = pkLog[i].before

\* C14: once the keystore holds a value under StorageKeyName, no step of a
\* later GetOrCreateStorageKey call changes it, also when the first Get of
\* that call fails although the entry is there.
C14_StorageKeyPersists == [][ksStore.present => ksStore' = ksStore]_vars

-----------------------------------------------------------------------------
(* Claims about concurrent callers, checked under SpecDatastoreConc and    *)
(* SpecKeystoreConc.                                                       *)

\* The call of entry i met no failing os.Stat and no failing probe.
DSNoFault(i) == ~dsLog[i].statFault /\ ~dsLog[i].probeFault

\* The call of entry i got a handle from sql.Open and ran its statement.
DSRanExec(i) == dsLog[i].db \in {"returned", "leaked"}

\* C16: of two interleaved calls on a directory whose database file is
\* absent at first, one with a key and one without, never both pass the
\* consistency check and open the store: whenever the driver opens an
\* existing file for a handle (at the handle's first statement), the file is
\* encrypted exactly when the handle was opened with a key.  The file a
\* statement leaves is the file it created, or the file it found.
C16_NoMismatchedOpen ==
    \A i \in DSLogIdx :
        (DSNoFault(i) /\ DSRanExec(i) /\ dsLog[i].after.state # "absent") =>
            (dsLog[i].key # Nil <=> dsLog[i].after.state = "encrypted")

\* The first Get of the call of entry i was answered by the keystore.
KSFaithfulGet(i) == ksLog[i].get1.err # ErrOf("get failed")

\* C17: concurrent calls on an empty keystore that stores what it is given
\* generate and store a key only once, and all the calls that succeed return
\* the same key.
C17_GeneratedOnce ==
    /\ \A i, j \in KSLogIdx :
          (i # j /\ KSFaithfulGet(i) /\ KSFaithfulGet(j))
              => ksLog[i].puts + ksLog[j].puts <= 1
    /\ \A i, j \in KSLogIdx :
          (KSFaithfulGet(i) /\ KSFaithfulGet(j)
             /\ ksLog[i].err = Ok /\ ksLog[j].err = Ok)
              => ksLog[i].key = ksLog[j].key

-----------------------------------------------------------------------------
(* Further claims about GetRootDatastoreForPath, checked under             *)
(* SpecDatastore.                                                          *)

\* C18: on every exit path after sql.Open succeeded, the path where the
\* table creation fails included, the handle is handed to the caller inside
\* the returned datastore or released: no call ends with an open handle that
\* nobody can close.
C18_HandleNotLeaked ==
    \A i \in DSLogIdx :
        dsLog[i].opened => dsLog[i].db \in {"none", "returned", "closed"}

\* The call of entry i found a database file and its probe returned an error.
DSProbeFailed(i) ==
    DSOnDisk(i) /\ dsLog[i].before.state # "absent" /\ dsLog[i].probeFault

\* The call of entry i went on past the consistency check.
DSPassedCheck(i) == dsLog[i].err # "ErrInvalidInput"

\* C19 as stated: when the probe of an existing database file returns an
\* error, a call with no key is not rejected by the consistency check and a
\* call with a key is rejected with InvalidInput.
C19_AsStated ==
    \A i \in DSLogIdx :
        DSProbeFailed(i) =>
            IF dsLog[i].key = Nil THEN DSPassedCheck(i)
            ELSE dsLog[i].err = "ErrInvalidInput"

\* C19: when the probe of a database file that os.Stat finds returns an
\* error, the file counts as not encrypted: a call with no key is not
\* rejected by the consistency check, a call with a key is rejected with
\* InvalidInput, and the probe's error is not what the call returns.
C19_ProbeErrorNotEncrypted ==
    \A i \in DSLogIdx :
        (DSProbeFailed(i) /\ ~dsLog[i].statFault) =>
            IF dsLog[i].key = Nil THEN DSPassedCheck(i)
            ELSE dsLog[i].err = "ErrInvalidInput"

\* Two calls on an encrypted file that os.Stat finds and whose probe fails:
\* the one without a key went on to open it, the one with a key was refused.
C19_Witness ==
    \E i, j \in DSLogIdx :
        /\ DSProbeFailed(i) /\ ~dsLog[i].statFault
        /\ dsLog[i].before.state = "encrypted"
        /\ dsLog[i].key = Nil /\ dsLog[i].opened
        /\ DSProbeFailed(j) /\ ~dsLog[j].statFault
        /\ dsLog[j].before.state = "encrypted"
        /\ dsLog[j].key # Nil /\ dsLog[j].err = "ErrInvalidInput"

=============================================================================
